---------------------------- MODULE Spec2Model ----------------------------
(***************************************************************************)
(* Supply coverage engine of app_gestion_insumos: the analysis run of      *)
(* GestionInsumos.ejecutar_analisis (src/app_gestion_de_insumos.py) and    *)
(* the table functions it calls (src/modules/utils_gestion_de_insumos.py). *)
(*                                                                         *)
(* A table (DataFrame) is a sequence of records, one record per row, the   *)
(* record's fields being the columns.  Column names are the source's,      *)
(* with the characters TLA+ does not allow in an identifier replaced       *)
(* (Almacén -> Almacen, 'Libre utilización' -> Libre_utilizacion,          *)
(* 'Inspecc.de calidad' -> Inspecc_de_calidad).                            *)
(*                                                                         *)
(* A float64 cell is a pair <<n, d>>: the fraction n/d in lowest terms     *)
(* with d > 0, or <<1, 0>> for +inf, <<-1, 0>> for -inf and <<0, 0>> for   *)
(* NaN.  The arithmetic follows IEEE-754 as numpy applies it (x/0 = inf,   *)
(* 0/0 = NaN, NaN propagates), exact on the finite values; rounding and    *)
(* the sign of zero are not modelled.                                      *)
(***************************************************************************)
EXTENDS Integers, Sequences, FiniteSets, TLC

(***************************************************************************)
(* Bound of the model: the longest table a run draws for the workbook it   *)
(* varies.                                                                 *)
(***************************************************************************)
MaxFilas == 2

-----------------------------------------------------------------------------
(* float64 arithmetic *)

NaN == <<0, 0>>
PInf == <<1, 0>>
NInf == <<-1, 0>>
Num(i) == <<i, 1>>
Cero == Num(0)
Uno == Num(1)

AbsInt(i) == IF i < 0 THEN -i ELSE i
Sgn(i) == IF i < 0 THEN -1 ELSE IF i > 0 THEN 1 ELSE 0

RECURSIVE GCD(_, _)
GCD(a, b) == IF b = 0 THEN a ELSE GCD(b, a % b)

Norm(n, d) ==
    IF d = 0 THEN <<Sgn(n), 0>>
    ELSE LET g == GCD(AbsInt(n), AbsInt(d))
             s == Sgn(d)
         IN  <<(s * n) \div g, (s * d) \div g>>

IsNaN(a) == a = NaN
IsInf(a) == a = PInf \/ a = NInf
IsFinite(a) == a[2] > 0

Mul(a, b) == Norm(a[1] * b[1], a[2] * b[2])
Recip(a) == IF a[1] < 0 THEN Norm(-a[2], -a[1]) ELSE Norm(a[2], a[1])
Div(a, b) == Mul(a, Recip(b))
Neg(a) == <<-a[1], a[2]>>
Add(a, b) ==
    IF a[2] = 0 /\ b[2] = 0
    THEN (IF a = b THEN a ELSE NaN)
    ELSE Norm(a[1] * b[2] + b[1] * a[2], a[2] * b[2])
Sub(a, b) == Add(a, Neg(b))
AbsNum(a) == <<AbsInt(a[1]), a[2]>>

\* a < b, False when either is NaN
Lt(a, b) ==
    /\ ~IsNaN(a)
    /\ ~IsNaN(b)
    /\ IF a[2] = 0 /\ b[2] = 0 THEN a[1] < b[1]
       ELSE a[1] * b[2] < b[1] * a[2]

\* np.maximum: NaN if either operand is NaN
Maximum(a, b) ==
    IF IsNaN(a) \/ IsNaN(b) THEN NaN
    ELSE IF Lt(a, b) THEN b ELSE a

\* Series.fillna(v) on one cell
FillNa(a, v) == IF IsNaN(a) THEN v ELSE a
\* Series.replace(old, new) on one cell, old not NaN
Replace(a, old, new) == IF a = old THEN new ELSE a
\* df != 0 on one cell: True for NaN
NotZero(a) == a # Cero
\* np.where on one cell
Where(cond, a, b) == IF cond THEN a ELSE b

\* sum(skipna=True) of a sequence of cells: a NaN cell counts as 0
RECURSIVE SumSkipNa(_)
SumSkipNa(s) ==
    IF s = <<>> THEN Cero
    ELSE Add(FillNa(Head(s), Cero), SumSkipNa(Tail(s)))

\* mean(skipna=True): NaN when every cell is NaN
MeanSkipNa(s) ==
    LET vivos == SelectSeq(s, LAMBDA x : ~IsNaN(x))
    IN  IF vivos = <<>> THEN NaN
        ELSE Div(SumSkipNa(vivos), Num(Len(vivos)))

-----------------------------------------------------------------------------
(* DataFrame operations *)

\* A material code that a left merge could not fill (NaN in an id column)
SinValor == 0 - 1

\* the cells of one column, top to bottom
Column(df, col) == [i \in 1..Len(df) |-> df[i][col]]

\* A column of integer codes holding a NaN is a float64 column
EsFlotante(df, col) == \E i \in 1..Len(df) : df[i][col] = SinValor

\* Series.astype(str) on one cell of a column of material codes: an int64
\* column prints 7 as '7', a float64 column prints 7.0 as '7.0' and NaN as
\* 'nan'
AstypeStr(v, flotante) ==
    IF flotante
    THEN (IF v = SinValor THEN "nan" ELSE ToString(v) \o ".0")
    ELSE ToString(v)

\* pd.merge(left, right[cols], how='left'): every left row, once per
\* matching right row, or once with the right columns missing
LeftMerge(left, right, left_on, right_on, cols, nulo) ==
    LET filas(l) ==
            LET m == SelectSeq(right, LAMBDA r : r[right_on] = l[left_on])
            IN  IF m = <<>> THEN <<l @@ [c \in cols |-> nulo]>>
                ELSE [i \in 1..Len(m) |-> l @@ [c \in cols |-> m[i][c]]]
        cat[i \in 0..Len(left)] ==
            IF i = 0 THEN <<>> ELSE cat[i - 1] \o filas(left[i])
    IN  cat[Len(left)]

\* The group keys of df.groupby(...), in order of first appearance (pandas
\* sorts the groups by key; the order of the groups is not modelled)
Claves(df, by) ==
    LET K(r) == [c \in 1..Len(by) |-> r[by[c]]]
        acc[i \in 0..Len(df)] ==
            IF i = 0 THEN <<>>
            ELSE IF \E j \in 1..Len(acc[i - 1]) : acc[i - 1][j] = K(df[i])
                 THEN acc[i - 1]
                 ELSE Append(acc[i - 1], K(df[i]))
    IN  acc[Len(df)]

\* DataFrame.drop_duplicates(): the first of every group of equal rows
DropDuplicates(df) ==
    LET acc[i \in 0..Len(df)] ==
            IF i = 0 THEN <<>>
            ELSE IF \E j \in 1..Len(acc[i - 1]) : acc[i - 1][j] = df[i]
                 THEN acc[i - 1]
                 ELSE Append(acc[i - 1], df[i])
    IN  acc[Len(df)]

-----------------------------------------------------------------------------
(* modules/utils_gestion_de_insumos.py *)

\* the hub identity for every center that has a HUB sub-location
generar_id_localidad_de_todo_hub(centro, almacen) ==
    IF almacen = "HUB" THEN "TCNO-HUB" ELSE centro

generar_id_localidad(centro, almacen) ==
    IF centro = "TCNO" /\ almacen = "HUB" THEN "TCNO-HUB" ELSE centro

generar_ids_y_stock(df, tipo) ==
    LET conLoc == [i \in 1..Len(df) |->
                     df[i] @@ [id_localidad |->
                                 generar_id_localidad(df[i].Centro, df[i].Almacen)]]
        conIns == [i \in 1..Len(df) |->
                     IF "id_insumo" \notin DOMAIN conLoc[i]
                     THEN conLoc[i] @@ [id_sap |-> conLoc[i].Material,
                                        id_insumo |-> conLoc[i].Material]
                     ELSE conLoc[i]]
        conStock == [i \in 1..Len(df) |->
                       IF /\ "Libre_utilizacion" \in DOMAIN conIns[i]
                          /\ "Inspecc_de_calidad" \in DOMAIN conIns[i]
                          /\ tipo = "general"
                       THEN conIns[i] @@ [stock_libre_mas_calidad |->
                                Add(conIns[i].Libre_utilizacion,
                                    conIns[i].Inspecc_de_calidad)]
                       ELSE conIns[i]]
        flotante == EsFlotante(conStock, "id_insumo")
    IN  [i \in 1..Len(df) |->
           conStock[i] @@ [id_localidad_insumo |->
               conStock[i].id_localidad
                   \o AstypeStr(conStock[i].id_insumo, flotante)]]

\* groupby([id_localidad, Almacén, id_insumo, id_localidad_insumo])
\*   [stock_libre_mas_calidad].sum().reset_index(); a row with a NaN key is
\* in no group
agrupar_mb52(df) ==
    LET vivos == SelectSeq(df, LAMBDA r : r.id_insumo # SinValor)
        K(r) == <<r.id_localidad, r.Almacen, r.id_insumo, r.id_localidad_insumo>>
        claves == Claves(vivos, <<"id_localidad", "Almacen", "id_insumo",
                                  "id_localidad_insumo">>)
    IN  [g \in 1..Len(claves) |->
           [id_localidad |-> claves[g][1],
            Almacen |-> claves[g][2],
            id_insumo |-> claves[g][3],
            id_localidad_insumo |-> claves[g][4],
            stock_libre_mas_calidad |->
                SumSkipNa(Column(SelectSeq(vivos, LAMBDA r : K(r) = claves[g]),
                                 "stock_libre_mas_calidad"))]]

\* rename(columns={'stock_libre_mas_calidad': 'stock_libre_mas_calidad_<suffix>'})
renombrar(df, suffix) ==
    [i \in 1..Len(df) |->
       [id_localidad |-> df[i].id_localidad,
        Almacen |-> df[i].Almacen,
        id_insumo |-> df[i].id_insumo,
        id_localidad_insumo |-> df[i].id_localidad_insumo]
       @@ (("stock_libre_mas_calidad_" \o suffix) :> df[i].stock_libre_mas_calidad)]

filter_and_rename(df, almacen, suffix) ==
    renombrar(SelectSeq(df, LAMBDA r : r.Almacen = almacen), suffix)

\* filtrar_general forgetting the hub code: a hub row is also a general row
filtrar_general_sin_hub(df) ==
    SelectSeq(df, LAMBDA r : r.Almacen \notin {"PI01", ""})

\* df_intermedio[~df_intermedio['Almacén'].isin(['PI01', '', 'L003'])]
filtrar_general(df) ==
    SelectSeq(df, LAMBDA r : r.Almacen \notin {"PI01", "", "L003"})

generar_y_separar_mb52(df, tipo) ==
    LET df_intermedio == agrupar_mb52(generar_ids_y_stock(df, tipo))
    IN  [intermedio |-> df_intermedio,
         produccion |-> filter_and_rename(df_intermedio, "PI01", "produccion"),
         transito |-> filter_and_rename(df_intermedio, "", "transito"),
         hub |-> filter_and_rename(df_intermedio, "L003", "hub"),
         general |-> renombrar(filtrar_general(df_intermedio), "general")]

\* The tiers in the order calcular_cobertura visits them
TIPOS == <<"general", "hub", "transito", "produccion">>

\* stock_columns of procesar_datos, in the order the merges add them
stock_columns == <<"stock_libre_mas_calidad_produccion",
                   "stock_libre_mas_calidad_transito",
                   "stock_libre_mas_calidad_hub",
                   "stock_libre_mas_calidad_general">>

\* The letters of a column name after the prefix 'stock_libre_mas_calidad_'
\* that the four names share, each letter as its place in the alphabet: the
\* order of two column names as Python strings is the order of these
Letras(col) ==
    CASE col = "stock_libre_mas_calidad_general" -> <<7, 5, 14, 5, 18, 1, 12>>
      [] col = "stock_libre_mas_calidad_hub" -> <<8, 21, 2>>
      [] col = "stock_libre_mas_calidad_transito" -> <<20, 18, 1, 14, 19, 9, 20, 15>>
      [] col = "stock_libre_mas_calidad_produccion" ->
             <<16, 18, 15, 4, 21, 3, 3, 9, 15, 14>>

\* s <= t for two Python strings
RECURSIVE StrLeq(_, _)
StrLeq(s, t) ==
    IF s = <<>> THEN TRUE
    ELSE IF t = <<>> THEN FALSE
    ELSE IF s[1] < t[1] THEN TRUE
    ELSE IF s[1] > t[1] THEN FALSE
    ELSE StrLeq(Tail(s), Tail(t))

\* acumulado of one row: the sum of the columns c of the frame with
\* c.startswith('stock_libre_mas_calidad_') and c <= col
acumulado(row, tipo) ==
    LET col == "stock_libre_mas_calidad_" \o tipo
        cols == SelectSeq(stock_columns,
                          LAMBDA c : c \in DOMAIN row /\ StrLeq(Letras(c), Letras(col)))
    IN  SumSkipNa([i \in 1..Len(cols) |-> row[cols[i]]])

\* (ratio_nominal * maxima_descarga) / rendimiento * cobertura_ideal
stock_cobertura_ideal(row) ==
    Mul(Div(Mul(row.ratio_nominal, row.maxima_descarga), row.rendimiento),
        row.cobertura_ideal)

\* denominador_teorico as max(objetivo, 1)
denominador_teorico_maximo(objetivo) == Maximum(objetivo, Uno)

\* stock_cobertura_ideal.replace(0, 1)
denominador_teorico(objetivo) == Replace(objetivo, Cero, Uno)

cobertura_teorica(row, tipo) ==
    Where(NotZero(row.ratio_nominal),
          Div(Mul(acumulado(row, tipo), row.cobertura_ideal),
              denominador_teorico(row.stock_cobertura_ideal)),
          Cero)

\* replace([np.inf, -np.inf], 0) on one cell
manejar_infinitos(v) == IF IsInf(v) THEN Cero ELSE v

\* cobertura_real without the guard on ratio_nominal
cobertura_real_sin_guarda(row, tipo) ==
    manejar_infinitos(Div(acumulado(row, tipo), row.consumo_diario))

cobertura_real(row, tipo) ==
    manejar_infinitos(
        Where(NotZero(row.ratio_nominal),
              Div(acumulado(row, tipo), row.consumo_diario),
              Cero))

\* calcular_cobertura on one row of the frame
calcular_cobertura_fila(row) ==
    LET r1 == [stock_cobertura_ideal |-> stock_cobertura_ideal(row)] @@ row
        r2 == [stock_libre_mas_calidad_general |->
                 FillNa(r1.stock_libre_mas_calidad_general, Cero)] @@ r1
    IN  r2 @@ [cobertura_teorica_con_stock_general |-> cobertura_teorica(r2, "general"),
               cobertura_teorica_con_stock_hub |-> cobertura_teorica(r2, "hub"),
               cobertura_teorica_con_stock_transito |-> cobertura_teorica(r2, "transito"),
               cobertura_teorica_con_stock_produccion |->
                   cobertura_teorica(r2, "produccion"),
               cobertura_real_general |-> cobertura_real(r2, "general"),
               cobertura_real_hub |-> cobertura_real(r2, "hub"),
               cobertura_real_transito |-> cobertura_real(r2, "transito"),
               cobertura_real_produccion |-> cobertura_real(r2, "produccion")]

calcular_cobertura(df) == [i \in 1..Len(df) |-> calcular_cobertura_fila(df[i])]

\* The float columns of df_base that fillna(0) reaches
columnas_numericas ==
    {"ratio_nominal", "rendimiento", "cobertura_ideal", "maxima_descarga",
     "stock_cobertura_ideal",
     "stock_libre_mas_calidad_produccion", "stock_libre_mas_calidad_transito",
     "stock_libre_mas_calidad_hub", "stock_libre_mas_calidad_general"}

\* the four left merges of the tier tables on id_localidad_insumo
merge_stocks(df_base, separados) ==
    LET m1 == LeftMerge(df_base, separados.produccion,
                  "id_localidad_insumo", "id_localidad_insumo",
                  {"stock_libre_mas_calidad_produccion"}, NaN)
        m2 == LeftMerge(m1, separados.transito,
                  "id_localidad_insumo", "id_localidad_insumo",
                  {"stock_libre_mas_calidad_transito"}, NaN)
        m3 == LeftMerge(m2, separados.hub,
                  "id_localidad_insumo", "id_localidad_insumo",
                  {"stock_libre_mas_calidad_hub"}, NaN)
    IN  LeftMerge(m3, separados.general,
                  "id_localidad_insumo", "id_localidad_insumo",
                  {"stock_libre_mas_calidad_general"}, NaN)

\* df_base left as the merges return it
llenar_nulos_omitido(df) == df

\* df_base.fillna(0)
llenar_nulos(df) ==
    [i \in 1..Len(df) |->
       [c \in DOMAIN df[i] |->
          IF c \in columnas_numericas THEN FillNa(df[i][c], Cero) ELSE df[i][c]]]

\* stock total, excedentes and faltantes of one row
excedentes_y_faltantes(row) ==
    LET total == SumSkipNa([i \in 1..Len(stock_columns) |-> row[stock_columns[i]]])
    IN  row @@ [stock_libre_mas_calidad |-> total,
                excedentes |-> Maximum(Sub(total, row.stock_cobertura_ideal), Cero),
                faltantes |-> Maximum(Sub(row.stock_cobertura_ideal, total), Cero)]

\* pd.merge with df_consumo_total on id_localidad_insumo, how='left'
merge_consumo(df_base, df_consumo_total) ==
    LeftMerge(df_base, df_consumo_total,
              "id_localidad_insumo", "id_localidad_insumo",
              {"consumo_diario", "Cantidad", "dias_de_pesca"}, NaN)

columnas_a_sumar ==
    {"stock_libre_mas_calidad", "stock_cobertura_ideal", "excedentes", "faltantes",
     "Cantidad", "consumo_diario",
     "stock_libre_mas_calidad_produccion", "stock_libre_mas_calidad_transito",
     "stock_libre_mas_calidad_hub", "stock_libre_mas_calidad_general"}

columnas_promedio == {"ratio_nominal", "rendimiento", "cobertura_ideal", "maxima_descarga"}

\* df_base.groupby(['id_insumo']).agg(agg_dict).reset_index()
agrupar_por_insumo(df) ==
    LET claves == Column(Claves(df, <<"id_insumo">>), 1)
        grupo(k) == SelectSeq(df, LAMBDA r : r.id_insumo = k)
    IN  [g \in 1..Len(claves) |->
           [id_insumo |-> claves[g]]
           @@ [c \in columnas_a_sumar |-> SumSkipNa(Column(grupo(claves[g]), c))]
           @@ [c \in columnas_promedio |-> MeanSkipNa(Column(grupo(claves[g]), c))]]

\* the per-material view with every coverage averaged over the keys
vista_por_insumo_promediada(resultado) ==
    LET claves == Column(Claves(resultado, <<"id_insumo">>), 1)
        grupo(k) == SelectSeq(resultado, LAMBDA r : r.id_insumo = k)
        vista == calcular_cobertura(agrupar_por_insumo(resultado))
    IN  [g \in 1..Len(vista) |->
           [c \in {"cobertura_teorica_con_stock_" \o TIPOS[t] : t \in 1..Len(TIPOS)}
                   \cup {"cobertura_real_" \o TIPOS[t] : t \in 1..Len(TIPOS)} |->
              MeanSkipNa(Column(grupo(claves[g]), c))]
           @@ vista[g]]

\* df_vista_por_insumo: the groups of id_insumo aggregated, then
\* calcular_cobertura on the aggregated rows
vista_por_insumo(resultado) == calcular_cobertura(agrupar_por_insumo(resultado))

\* procesar_datos: the per-key result and the per-material view
procesar_datos(df_base, separados, df_consumo_total) ==
    LET flotante == EsFlotante(df_base, "id_insumo")
        conId == [i \in 1..Len(df_base) |->
                    [id_localidad_insumo |->
                        df_base[i].id_localidad
                            \o AstypeStr(df_base[i].id_insumo, flotante)]
                    @@ df_base[i]]
        llenos == llenar_nulos(merge_stocks(conId, separados))
        conStock == [i \in 1..Len(llenos) |-> excedentes_y_faltantes(llenos[i])]
        resultado == calcular_cobertura(merge_consumo(conStock, df_consumo_total))
    IN  [df_base |-> resultado,
         df_vista_por_insumo |-> vista_por_insumo(resultado)]

\* unique_days_per_plant['WERKS'].value_counts(): the distinct (WERKS, FCSAZ)
\* pairs counted per plant (the order of the plants is not modelled)
dias_produccion(str_des) ==
    LET unique_days_per_plant ==
            DropDuplicates([i \in 1..Len(str_des) |->
                              [WERKS |-> str_des[i].WERKS, FCSAZ |-> str_des[i].FCSAZ]])
        plantas == Column(Claves(unique_days_per_plant, <<"WERKS">>), 1)
    IN  [g \in 1..Len(plantas) |->
           [id_localidad |-> plantas[g],
            dias_de_pesca |->
                Num(Len(SelectSeq(unique_days_per_plant,
                                  LAMBDA r : r.WERKS = plantas[g])))]]

\* consultar_pesca answering a failed query with no operational days
consultar_pesca_sin_falla(resp) ==
    IF resp.clase = "respuesta" /\ resp.status_code = 200 /\ resp.str_des # <<>>
    THEN [salida |-> "ok", excepcion |-> "",
          df_dias_produccion |-> dias_produccion(resp.str_des)]
    ELSE [salida |-> "ok", excepcion |-> "", df_dias_produccion |-> <<>>]

\* What consultar_pesca does with the reply to its one POST: "raise" with the
\* exception, "None" for (None, None), or the table of operational days
consultar_pesca(resp) ==
    IF resp.clase = "excepcion"
    THEN [salida |-> "raise", excepcion |-> "RequestException"]
    ELSE IF resp.status_code # 200
    THEN [salida |-> "None", excepcion |-> ""]
    ELSE IF resp.str_des = <<>>
    THEN [salida |-> "raise", excepcion |-> "KeyError"]
    ELSE [salida |-> "ok", excepcion |-> "",
          df_dias_produccion |-> dias_produccion(resp.str_des)]

-----------------------------------------------------------------------------
(* app_gestion_de_insumos.py *)

\* the left merge of MB51 or MB52 with mapeo_sap_insumo on Material
mapear_insumo(df, df_insumos) ==
    LET mapeo_sap_insumo ==
            DropDuplicates([i \in 1..Len(df_insumos) |->
                              [id_sap |-> df_insumos[i].id_sap,
                               id_insumo |-> df_insumos[i].id_insumo]])
    IN  LeftMerge(df, mapeo_sap_insumo, "Material", "id_sap",
                  {"id_insumo"}, SinValor)

\* df_homologacion and df_base of procesar_datos_principales
generar_base(df_insumos, df_ratios, df_capacidad) ==
    LET id_mix(r) == r.id_localidad \o AstypeStr(r.id_insumo, FALSE)
        df_homologado == [i \in 1..Len(df_insumos) |->
                            df_insumos[i] @@ [id_mix |-> id_mix(df_insumos[i])]]
        df_homologacion ==
            LeftMerge(df_homologado,
                      [i \in 1..Len(df_ratios) |->
                         df_ratios[i] @@ [id_mix |-> id_mix(df_ratios[i])]],
                      "id_mix", "id_mix", {"ratio_nominal"}, NaN)
        df_merged ==
            LeftMerge(df_homologacion, df_capacidad,
                      "id_localidad", "id_localidad",
                      {"rendimiento", "cobertura_ideal", "maxima_descarga"}, NaN)
    IN  [i \in 1..Len(df_merged) |->
           df_merged[i] @@ [stock_cobertura_ideal |-> stock_cobertura_ideal(df_merged[i])]]

\* total_consumido taking the absolute value of each row before the sum
total_consumido_abs_por_fila(cantidades) ==
    SumSkipNa([i \in 1..Len(cantidades) |-> AbsNum(cantidades[i])])

\* groupby(['id_localidad', 'id_insumo'])['Cantidad'].sum().abs() on one group
total_consumido(cantidades) == AbsNum(SumSkipNa(cantidades))

\* dias_por_defecto filling a missing count with 0
dias_por_defecto_cero(dias) == FillNa(dias, Cero)

\* dias_de_pesca.fillna(1)
dias_por_defecto(dias) == FillNa(dias, Uno)

\* df_consumo_total of procesar_datos_principales
generar_consumo(mb51, df_dias_produccion) ==
    LET flotante == EsFlotante(mb51, "id_insumo")
        vivos == SelectSeq(mb51, LAMBDA r : r.id_insumo # SinValor)
        K(r) == <<r.id_localidad, r.id_insumo>>
        claves == Claves(vivos, <<"id_localidad", "id_insumo">>)
        agrupado == [g \in 1..Len(claves) |->
                       [id_localidad |-> claves[g][1],
                        id_insumo |-> claves[g][2],
                        Cantidad |->
                            total_consumido(
                                Column(SelectSeq(vivos, LAMBDA r : K(r) = claves[g]),
                                       "Cantidad"))]]
        conDias == LeftMerge(agrupado, df_dias_produccion,
                             "id_localidad", "id_localidad",
                             {"dias_de_pesca"}, NaN)
    IN  [i \in 1..Len(conDias) |->
           conDias[i]
           @@ [consumo_diario |->
                   Div(conDias[i].Cantidad, dias_por_defecto(conDias[i].dias_de_pesca)),
               id_localidad_insumo |->
                   conDias[i].id_localidad \o AstypeStr(conDias[i].id_insumo, flotante)]]

-----------------------------------------------------------------------------
(* The workbooks and the reply a run can be given *)

Centros == {"A", "TCNO"}
Almacenes == {"PI01", "", "L003", "L001", "HUB"}

\* every table of at most MaxFilas rows drawn from S
Tablas(S) == UNION {[1..n -> S] : n \in 0..MaxFilas}

Fila52(c, a, m, l, q) ==
    [Centro |-> c, Almacen |-> a, Material |-> m,
     Libre_utilizacion |-> Num(l), Inspecc_de_calidad |-> Num(q)]
Fila51(c, a, m, q) == [Centro |-> c, Almacen |-> a, Material |-> m, Cantidad |-> Num(q)]
Insumo(sap, ins, loc) == [id_sap |-> sap, id_insumo |-> ins, id_localidad |-> loc]
Ratio(loc, ins, r) == [id_localidad |-> loc, id_insumo |-> ins, ratio_nominal |-> Num(r)]
Capacidad(loc, rend, cob, maxd) ==
    [id_localidad |-> loc, rendimiento |-> Num(rend), cobertura_ideal |-> Num(cob),
     maxima_descarga |-> Num(maxd)]
Evento(w, d) == [WERKS |-> w, FCSAZ |-> d]
Respuesta200(t) == [clase |-> "respuesta", status_code |-> 200, str_des |-> t]

Filas52 ==
    {Fila52(c, a, 1, 1, 0) : c \in Centros, a \in Almacenes}
    \cup {Fila52("A", "PI01", 1, 1, 1)}
Filas51 == {Fila51(c, "HUB", m, q) : c \in Centros, m \in {1, 2}, q \in {-2, 1}}
Eventos == {Evento("A", d) : d \in {1, 2}}
Respuestas ==
    {[clase |-> "excepcion", status_code |-> 0, str_des |-> <<>>],
     [clase |-> "respuesta", status_code |-> 500, str_des |-> <<>>]}
    \cup {Respuesta200(t) : t \in Tablas(Eventos)}

\* the fixed workbooks: material 1 at the plants A and TCNO and at the hub,
\* the hub having no installed capacity (Insumos2: material 1 at plant A
\* and material 3 at plant TCNO)
Insumos3 == <<Insumo(1, 1, "A"), Insumo(1, 1, "TCNO"), Insumo(1, 1, "TCNO-HUB")>>
InsumosDup == Insumos3 \o <<Insumo(1, 1, "A")>>
Insumos2 == <<Insumo(1, 1, "A"), Insumo(3, 3, "TCNO")>>
Ratios3 == <<Ratio("A", 1, 1), Ratio("TCNO", 1, 1), Ratio("TCNO-HUB", 1, 2)>>
Capacidad2 == <<Capacidad("A", 1, 2, 1), Capacidad("TCNO", 2, 1, 1)>>
Mb51Fijo == <<Fila51("A", "L001", 1, -2), Fila51("TCNO", "L001", 1, -1)>>
Mb52Fijo == <<Fila52("A", "L001", 1, 1, 0), Fila52("A", "PI01", 1, 1, 1),
              Fila52("TCNO", "HUB", 1, 1, 0)>>
RespuestaFija == Respuesta200(<<Evento("A", 1), Evento("A", 2), Evento("A", 1)>>)

\* the reference rows of plant A that a run may vary
RatiosA ==
    {<<Ratio("TCNO", 3, 1)>>}
    \cup {<<Ratio("A", 1, r), Ratio("TCNO", 3, 1)>> : r \in {0, 1, 2}}
CapacidadesA ==
    {<<Capacidad("TCNO", 2, 1, 1)>>}
    \cup {<<Capacidad("A", rend, cob, maxd), Capacidad("TCNO", 2, 1, 1)>> :
            rend \in {0, 1, 2}, cob \in {0, 1, 2}, maxd \in {0, 1}}
Mb52A == {<<>>,
          <<Fila52("A", "L001", 1, 1, 0)>>,
          <<Fila52("A", "L001", 1, 1, 0), Fila52("A", "PI01", 1, 1, 1),
            Fila52("A", "", 1, 1, 0)>>}
Mb51A == {<<>>,
          <<Fila51("A", "L001", 1, -2)>>,
          <<Fila51("A", "L001", 1, 1), Fila51("A", "L001", 1, -1)>>}

\* workbooks with the centers A and A1 and the materials 11 and 1
InsumosA1 == <<Insumo(11, 11, "A"), Insumo(1, 1, "A1")>>
RatiosA1 == <<Ratio("A", 11, 1), Ratio("A1", 1, 2)>>
CapacidadA1 == <<Capacidad("A", 1, 2, 1), Capacidad("A1", 1, 1, 1)>>
Mb52A1 == {<<>>,
           <<Fila52("A1", "L001", 1, 1, 0)>>,
           <<Fila52("A", "L001", 11, 1, 1)>>,
           <<Fila52("A1", "L001", 1, 1, 0), Fila52("A", "PI01", 11, 1, 1)>>}
Mb51A1 == {<<>>,
           <<Fila51("A1", "L001", 1, -2)>>,
           <<Fila51("A", "L001", 11, -1)>>,
           <<Fila51("A1", "L001", 1, -2), Fila51("A", "L001", 11, -1)>>}

Requeridos == {"datasets", "mb51", "mb52"}
SinTabla == <<>>

\* the values of the tolerance slider a run is started with (percent)
Tolerancias == {0, 10}
ToleranciaPorDefecto == 10

-----------------------------------------------------------------------------
(* The analysis run *)

VARIABLES
    pc,                      \* where ejecutar_analisis is
    subidos,                 \* the uploaded files that are not None
    archivos,                \* the sheets of the uploaded workbooks
    defectuosos,             \* the uploaded files pd.read_excel cannot read
    tolerancia,              \* the value of the tolerance slider
    respuesta,               \* the reply of the activity service to the POST
    tareas,                  \* the state of every loading task of the executor
    recogidas,               \* the futures whose result() has returned
    consultas,               \* the POSTs sent to the activity service
    dfs,                     \* the loaded tables
    separados,               \* df_intermedio and the four tier tables of MB52
    df_base,                 \* df_base of procesar_datos_principales
    df_consumo_total,
    df_resultado,            \* per-key result of procesar_datos
    df_resultado_por_insumo, \* per-material view of procesar_datos
    libro,                   \* the sheets written to resultados.xlsx
    error                    \* the exception that ended the run, "" if none

vars == <<pc, subidos, archivos, defectuosos, tolerancia, respuesta, tareas,
          recogidas, consultas, dfs, separados, df_base, df_consumo_total,
          df_resultado, df_resultado_por_insumo, libro, error>>

\* what a run never changes
entradas == <<subidos, archivos, defectuosos, tolerancia, respuesta>>
\* the tables computed after the loading
calculos == <<separados, df_base, df_consumo_total, df_resultado,
              df_resultado_por_insumo>>

Libros(insumos, ratios, capacidad, mb51, mb52) ==
    [db_insumos |-> insumos, db_ratios_planta_insumo |-> ratios,
     db_capacidad_instalada |-> capacidad, mb51 |-> mb51, mb52 |-> mb52]

SinCargar == Libros(SinTabla, SinTabla, SinTabla, SinTabla, SinTabla)
SinSeparar == [intermedio |-> SinTabla, produccion |-> SinTabla, transito |-> SinTabla,
               hub |-> SinTabla, general |-> SinTabla]

\* the order in which the results of the futures are taken: the MB files in
\* the order of archivos_subidos, then the datasets sheets
OrdenDeRecogida == <<"mb51", "mb52", "datasets">>

\* the tables a loading task returns
HojasDe(k) ==
    IF k = "datasets"
    THEN [db_insumos |-> archivos.db_insumos,
          db_ratios_planta_insumo |-> archivos.db_ratios_planta_insumo,
          db_capacidad_instalada |-> archivos.db_capacidad_instalada]
    ELSE IF k = "mb51" THEN [mb51 |-> archivos.mb51]
    ELSE [mb52 |-> archivos.mb52]

\* all([...]) of ejecutar_analisis, and the mutation any([...])
alguno_subido(s) == \E f \in Requeridos : f \in s
todos_subidos(s) == \A f \in Requeridos : f \in s

\* a run that varies the stock snapshot
InitMb52 ==
    /\ subidos = Requeridos
    /\ defectuosos = {}
    /\ tolerancia = ToleranciaPorDefecto
    /\ respuesta = RespuestaFija
    /\ \E t \in Tablas(Filas52) :
          archivos = Libros(Insumos3, Ratios3, Capacidad2, Mb51Fijo, t)

\* a run that varies the movement ledger
InitMb51 ==
    /\ subidos = Requeridos
    /\ defectuosos = {}
    /\ tolerancia = ToleranciaPorDefecto
    /\ respuesta \in {RespuestaFija, Respuesta200(<<Evento("TCNO", 1)>>)}
    /\ \E t \in Tablas(Filas51) :
          archivos = Libros(Insumos3, Ratios3, Capacidad2, t, Mb52Fijo)

\* a run that varies the reply of the activity service, the catalog and the
\* tolerance
InitServicio ==
    /\ subidos = Requeridos
    /\ defectuosos = {}
    /\ tolerancia \in Tolerancias
    /\ respuesta \in Respuestas
    /\ \E ins \in {Insumos3, InsumosDup}, m \in Mb51A :
          archivos = Libros(ins, Ratios3, Capacidad2, m, Mb52Fijo)

\* a run that varies the reference rows of plant A
InitDatasets ==
    /\ subidos = Requeridos
    /\ defectuosos = {}
    /\ tolerancia = ToleranciaPorDefecto
    /\ respuesta = RespuestaFija
    /\ \E r \in RatiosA, c \in CapacidadesA, s \in Mb52A, m \in Mb51A :
          archivos = Libros(Insumos2, r, c, m, s)

\* a run on the workbooks of the centers A and A1
InitA1 ==
    /\ subidos = Requeridos
    /\ defectuosos = {}
    /\ tolerancia = ToleranciaPorDefecto
    /\ respuesta = RespuestaFija
    /\ \E s \in Mb52A1, m \in Mb51A1 :
          archivos = Libros(InsumosA1, RatiosA1, CapacidadA1, m, s)

\* a run with a file missing, or with files that cannot be read
InitFaltante ==
    /\ \/ subidos \in (SUBSET Requeridos) \ {Requeridos} /\ defectuosos = {}
       \/ subidos = Requeridos /\ defectuosos \in (SUBSET Requeridos) \ {{}}
    /\ tolerancia \in Tolerancias
    /\ respuesta = RespuestaFija
    /\ archivos = Libros(Insumos3, Ratios3, Capacidad2, Mb51Fijo, Mb52Fijo)

Init ==
    /\ pc = "inicio"
    /\ InitMb52 \/ InitMb51 \/ InitServicio \/ InitDatasets \/ InitA1 \/ InitFaltante
    /\ tareas = [k \in Requeridos |-> "sin_enviar"]
    /\ recogidas = 0
    /\ consultas = 0
    /\ dfs = SinCargar
    /\ separados = SinSeparar
    /\ df_base = SinTabla
    /\ df_consumo_total = SinTabla
    /\ df_resultado = SinTabla
    /\ df_resultado_por_insumo = SinTabla
    /\ libro = [escrito |-> FALSE]
    /\ error = ""

\* ejecutar_analisis with a required file missing: st.warning, nothing else
Advertencia ==
    /\ pc = "inicio"
    /\ ~todos_subidos(subidos)
    /\ pc' = "advertencia"
    /\ UNCHANGED <<entradas, tareas, recogidas, consultas, dfs, calculos, libro, error>>

\* cargar_datos_en_paralelo: the three loading tasks are submitted
EnviarTareas ==
    /\ pc = "inicio"
    /\ todos_subidos(subidos)
    /\ tareas' = [k \in Requeridos |-> "pendiente"]
    /\ pc' = "cargando"
    /\ UNCHANGED <<entradas, recogidas, consultas, dfs, calculos, libro, error>>

\* a worker thread: pd.read_excel of one task returns or raises
TerminarTarea ==
    \E k \in Requeridos :
        /\ tareas[k] = "pendiente"
        /\ tareas' = [tareas EXCEPT ![k] = IF k \in defectuosos THEN "fallida"
                                           ELSE "lista"]
        /\ UNCHANGED <<pc, entradas, recogidas, consultas, dfs, calculos, libro, error>>

\* the main thread takes the next result whatever the state of its task: a
\* pending or failed task leaves its tables empty
RecogerResultado_sin_esperar ==
    /\ pc = "cargando"
    /\ recogidas < Len(OrdenDeRecogida)
    /\ LET k == OrdenDeRecogida[recogidas + 1]
       IN  dfs' = IF tareas[k] = "lista" THEN HojasDe(k) @@ dfs ELSE dfs
    /\ recogidas' = recogidas + 1
    /\ pc' = IF recogidas + 1 = Len(OrdenDeRecogida) THEN "cargado" ELSE "cargando"
    /\ UNCHANGED <<entradas, tareas, consultas, calculos, libro, error>>

\* the main thread: future.result() of the next future blocks until its task
\* is done, then returns its tables or raises its exception; after the last
\* one the with block is left and dfs is returned
RecogerResultado ==
    /\ pc = "cargando"
    /\ recogidas < Len(OrdenDeRecogida)
    /\ LET k == OrdenDeRecogida[recogidas + 1]
       IN  /\ tareas[k] # "pendiente"
           /\ \/ /\ tareas[k] = "lista"
                 /\ dfs' = HojasDe(k) @@ dfs
                 /\ recogidas' = recogidas + 1
                 /\ pc' = IF recogidas + 1 = Len(OrdenDeRecogida) THEN "cargado"
                          ELSE "cargando"
                 /\ UNCHANGED error
              \/ /\ tareas[k] = "fallida"
                 /\ error' = "ValueError"
                 /\ pc' = "saliendo"
                 /\ UNCHANGED <<dfs, recogidas>>
    /\ UNCHANGED <<entradas, tareas, consultas, calculos, libro>>

\* the with block is left by an exception: the executor waits for the tasks
\* that still run, then the exception reaches the caller of ejecutar_analisis
SalirDelExecutor ==
    /\ pc = "saliendo"
    /\ \A k \in Requeridos : tareas[k] # "pendiente"
    /\ pc' = "error"
    /\ UNCHANGED <<entradas, tareas, recogidas, consultas, dfs, calculos, libro, error>>

\* preprocesar_datos
PreprocesarDatos ==
    /\ pc = "cargado"
    /\ LET mb51 == mapear_insumo(dfs.mb51, dfs.db_insumos)
           mb52 == mapear_insumo(dfs.mb52, dfs.db_insumos)
       IN  /\ dfs' = [dfs EXCEPT !.mb51 = generar_ids_y_stock(mb51, "general"),
                                 !.mb52 = generar_ids_y_stock(mb52, "general")]
           /\ separados' = generar_y_separar_mb52(mb52, "general")
    /\ pc' = "preprocesado"
    /\ UNCHANGED <<entradas, tareas, recogidas, consultas, df_base, df_consumo_total,
                   df_resultado, df_resultado_por_insumo, libro, error>>

\* procesar_datos_principales
ProcesarDatosPrincipales ==
    /\ pc = "preprocesado"
    /\ consultas' = consultas + 1
    /\ LET pesca == consultar_pesca(respuesta)
       IN  \/ /\ pesca.salida = "ok"
              /\ df_base' = generar_base(dfs.db_insumos, dfs.db_ratios_planta_insumo,
                                         dfs.db_capacidad_instalada)
              /\ df_consumo_total' = generar_consumo(dfs.mb51, pesca.df_dias_produccion)
              /\ pc' = "principal"
              /\ UNCHANGED error
           \/ /\ pesca.salida = "raise"
              /\ error' = pesca.excepcion
              /\ pc' = "error"
              /\ UNCHANGED <<df_base, df_consumo_total>>
           \/ /\ pesca.salida = "None"
              \* df_dias_produccion[['id_localidad', 'dias_de_pesca']] on None
              /\ error' = "TypeError"
              /\ pc' = "error"
              /\ UNCHANGED <<df_base, df_consumo_total>>
    /\ UNCHANGED <<entradas, tareas, recogidas, dfs, separados, df_resultado,
                   df_resultado_por_insumo, libro>>

\* procesar_datos on a table cut by the tolerance
ProcesarDatos_con_tolerancia ==
    /\ pc = "principal"
    /\ LET r == procesar_datos(df_base, separados, df_consumo_total)
       IN  /\ df_resultado' = IF tolerancia = 0 THEN SinTabla ELSE r.df_base
           /\ df_resultado_por_insumo' = r.df_vista_por_insumo
    /\ pc' = "procesado"
    /\ UNCHANGED <<entradas, tareas, recogidas, consultas, dfs, separados, df_base,
                   df_consumo_total, libro, error>>

\* procesar_datos
ProcesarDatos ==
    /\ pc = "principal"
    /\ LET r == procesar_datos(df_base, separados, df_consumo_total)
       IN  /\ df_resultado' = r.df_base
           /\ df_resultado_por_insumo' = r.df_vista_por_insumo
    /\ pc' = "procesado"
    /\ UNCHANGED <<entradas, tareas, recogidas, consultas, dfs, separados, df_base,
                   df_consumo_total, libro, error>>

\* guardar_resultados: the two coverage sheets and the parameters sheet
GuardarResultados ==
    /\ pc = "procesado"
    /\ libro' = [escrito |-> TRUE,
                 seguimiento_insumos |-> df_resultado,
                 seguimiento_por_insumo |-> df_resultado_por_insumo,
                 parametros |-> <<[tolerancia |-> Div(Num(tolerancia), Num(100))]>>]
    /\ pc' = "guardado"
    /\ UNCHANGED <<entradas, tareas, recogidas, consultas, dfs, calculos, error>>

Next ==
    \/ Advertencia
    \/ EnviarTareas
    \/ TerminarTarea
    \/ RecogerResultado
    \/ SalirDelExecutor
    \/ PreprocesarDatos
    \/ ProcesarDatosPrincipales
    \/ ProcesarDatos
    \/ GuardarResultados

Spec == Init /\ [][Next]_vars

-----------------------------------------------------------------------------
(* Properties *)

Filas(df) == 1..Len(df)
Positivo(a) == Lt(Cero, a)
Procesado == pc \in {"procesado", "guardado"}
\* preprocesar_datos has returned
Preprocesado ==
    \/ pc \in {"preprocesado", "principal", "procesado", "guardado"}
    \/ pc = "error" /\ consultas > 0

\* the cell of a tier's stock column, a missing or NaN cell counting as 0
Existencia(row, tipo) == FillNa(row["stock_libre_mas_calidad_" \o tipo], Cero)

\* cumulative stock in the order general, hub, transit, production
AcumuladoEnOrden(row, tipo) ==
    CASE tipo = "general" -> Existencia(row, "general")
      [] tipo = "hub" -> Add(Existencia(row, "general"), Existencia(row, "hub"))
      [] tipo = "transito" ->
             Add(Add(Existencia(row, "general"), Existencia(row, "hub")),
                 Existencia(row, "transito"))
      [] tipo = "produccion" ->
             Add(Add(Add(Existencia(row, "general"), Existencia(row, "hub")),
                     Existencia(row, "transito")),
                 Existencia(row, "produccion"))

\* cumulative stock in the order of the column names: general, hub,
\* produccion, transito
AcumuladoPorNombre(row, tipo) ==
    CASE tipo = "general" -> Existencia(row, "general")
      [] tipo = "hub" -> Add(Existencia(row, "general"), Existencia(row, "hub"))
      [] tipo = "produccion" ->
             Add(Add(Existencia(row, "general"), Existencia(row, "hub")),
                 Existencia(row, "produccion"))
      [] tipo = "transito" ->
             Add(Add(Add(Existencia(row, "general"), Existencia(row, "hub")),
                     Existencia(row, "produccion")),
                 Existencia(row, "transito"))

Tipos == {TIPOS[i] : i \in 1..Len(TIPOS)}

\* C1: for every row of the per-key result and of the per-material view and
\* every tier T, the cumulative stock calcular_cobertura uses for T is the sum
\* of T and of the tiers before T in the order general, hub, transit,
\* production.
C1_AcumuladoEnOrdenFijo ==
    /\ \A i \in Filas(df_resultado) : \A t \in Tipos :
          acumulado(df_resultado[i], t) = AcumuladoEnOrden(df_resultado[i], t)
    /\ \A i \in Filas(df_resultado_por_insumo) : \A t \in Tipos :
          acumulado(df_resultado_por_insumo[i], t)
              = AcumuladoEnOrden(df_resultado_por_insumo[i], t)

\* the signed quantities of the ledger rows of one (location, material) group
CantidadesDe(loc, ins) ==
    Column(SelectSeq(dfs.mb51, LAMBDA r : r.id_localidad = loc /\ r.id_insumo = ins),
           "Cantidad")

\* C2 as stated: total-consumed of every (location, material) group is the
\* sum of the absolute values of the group's signed quantities.
C2_SumaDeAbsolutos ==
    \A i \in Filas(df_consumo_total) :
        LET q == CantidadesDe(df_consumo_total[i].id_localidad,
                              df_consumo_total[i].id_insumo)
        IN  df_consumo_total[i].Cantidad
                = SumSkipNa([j \in 1..Len(q) |-> AbsNum(q[j])])

\* C2 amended: every (location, material) group of the ledger has one row in
\* the consumption table, and its total-consumed is the absolute value of the
\* sum of the group's signed quantities.
C2_AbsolutoDeLaSuma ==
    pc \in {"principal", "procesado", "guardado"} =>
        /\ \A i \in Filas(df_consumo_total) :
              df_consumo_total[i].Cantidad
                  = AbsNum(SumSkipNa(CantidadesDe(df_consumo_total[i].id_localidad,
                                                  df_consumo_total[i].id_insumo)))
        /\ \A j \in Filas(dfs.mb51) :
              dfs.mb51[j].id_insumo # SinValor =>
                  Cardinality({i \in Filas(df_consumo_total) :
                                  /\ df_consumo_total[i].id_localidad
                                         = dfs.mb51[j].id_localidad
                                  /\ df_consumo_total[i].id_insumo
                                         = dfs.mb51[j].id_insumo}) = 1

\* C2 witness: a group with a positive and a negative ledger row
C2_GrupoConSignosMixtos ==
    \E i \in Filas(df_consumo_total) :
        LET q == CantidadesDe(df_consumo_total[i].id_localidad,
                              df_consumo_total[i].id_insumo)
        IN  /\ \E j \in 1..Len(q) : Positivo(q[j])
            /\ \E j \in 1..Len(q) : Lt(q[j], Cero)
            /\ Positivo(df_consumo_total[i].Cantidad)

\* C3: in the per-material view every additive column of a material's row is
\* the sum of that column over the per-key rows of the material.
C3_VistaSumaLasFilas ==
    \A v \in Filas(df_resultado_por_insumo) : \A c \in columnas_a_sumar :
        df_resultado_por_insumo[v][c]
            = SumSkipNa(Column(SelectSeq(df_resultado,
                                  LAMBDA r : r.id_insumo
                                                 = df_resultado_por_insumo[v].id_insumo),
                               c))

\* C4: when no two rows of the catalog base have the same CompositeKey, the
\* per-key result has exactly one row per catalog CompositeKey.
C4_UnaFilaPorClave ==
    (/\ Procesado
     /\ \A i, j \in Filas(df_base) : df_base[i].id_mix = df_base[j].id_mix => i = j)
    => /\ Len(df_resultado) = Len(df_base)
       /\ \A i \in Filas(df_base) :
             Cardinality({j \in Filas(df_resultado) :
                             df_resultado[j].id_localidad_insumo = df_base[i].id_mix}) = 1

\* a row of a table of the split, with its quantity column col
FilaSeparada(r, col) ==
    <<r.id_localidad, r.Almacen, r.id_insumo, r.id_localidad_insumo, r[col]>>
Veces(tabla, col, f) ==
    Cardinality({j \in Filas(tabla) : FilaSeparada(tabla[j], col) = f})
VecesEnLasCuatro(f) ==
    Veces(separados.produccion, "stock_libre_mas_calidad_produccion", f)
    + Veces(separados.transito, "stock_libre_mas_calidad_transito", f)
    + Veces(separados.hub, "stock_libre_mas_calidad_hub", f)
    + Veces(separados.general, "stock_libre_mas_calidad_general", f)
CantidadDeClave(tabla, col, k) ==
    SumSkipNa(Column(SelectSeq(tabla, LAMBDA r : r.id_localidad_insumo = k), col))

\* C5: the four tables of generar_y_separar_mb52 are pairwise disjoint, every
\* grouped (location, sub-location, material) row is in exactly one of them and
\* they hold no other row, and for every CompositeKey the quantities of the
\* four tables add up to the quantity of the key in the grouped table.
C5_ParticionConserva ==
    /\ \A i \in Filas(separados.intermedio) :
          VecesEnLasCuatro(FilaSeparada(separados.intermedio[i],
                                        "stock_libre_mas_calidad")) = 1
    /\ Len(separados.produccion) + Len(separados.transito) + Len(separados.hub)
           + Len(separados.general) = Len(separados.intermedio)
    /\ \A i \in Filas(separados.intermedio) :
          LET k == separados.intermedio[i].id_localidad_insumo
          IN  Add(Add(CantidadDeClave(separados.produccion,
                                      "stock_libre_mas_calidad_produccion", k),
                      CantidadDeClave(separados.transito,
                                      "stock_libre_mas_calidad_transito", k)),
                  Add(CantidadDeClave(separados.hub,
                                      "stock_libre_mas_calidad_hub", k),
                      CantidadDeClave(separados.general,
                                      "stock_libre_mas_calidad_general", k)))
              = CantidadDeClave(separados.intermedio, "stock_libre_mas_calidad", k)

\* C5 witness: one CompositeKey with a hub row and a general row
C5_ClaveEnDosNiveles ==
    \E i \in Filas(separados.hub), j \in Filas(separados.general) :
        /\ separados.hub[i].id_localidad_insumo
               = separados.general[j].id_localidad_insumo
        /\ Positivo(separados.hub[i].stock_libre_mas_calidad_hub)
        /\ Positivo(separados.general[j].stock_libre_mas_calidad_general)

CoberturasEnCero(row) ==
    /\ row.cobertura_teorica_con_stock_general = Cero
    /\ row.cobertura_teorica_con_stock_hub = Cero
    /\ row.cobertura_teorica_con_stock_transito = Cero
    /\ row.cobertura_teorica_con_stock_produccion = Cero
    /\ row.cobertura_real_general = Cero
    /\ row.cobertura_real_hub = Cero
    /\ row.cobertura_real_transito = Cero
    /\ row.cobertura_real_produccion = Cero

\* C6: every row with nominal_ratio = 0, whether 0 in the catalog or missing
\* and filled with 0, has all four theoretical and all four real coverages
\* exactly 0, in the per-key result and in the per-material view.
C6_RatioCeroCoberturaCero ==
    /\ \A i \in Filas(df_resultado) :
          df_resultado[i].ratio_nominal = Cero => CoberturasEnCero(df_resultado[i])
    /\ \A i \in Filas(df_resultado_por_insumo) :
          df_resultado_por_insumo[i].ratio_nominal = Cero
              => CoberturasEnCero(df_resultado_por_insumo[i])

\* C6 witness: a per-key row whose ratio was missing and filled with 0, with
\* stock in hand and a positive daily rate
C6_RatioFaltanteConStock ==
    \E i \in Filas(df_resultado) : \E j \in Filas(df_base) :
        /\ df_base[j].id_mix = df_resultado[i].id_localidad_insumo
        /\ IsNaN(df_base[j].ratio_nominal)
        /\ df_resultado[i].ratio_nominal = Cero
        /\ Positivo(df_resultado[i].stock_libre_mas_calidad_general)
        /\ Positivo(df_resultado[i].consumo_diario)
        /\ IsFinite(df_resultado[i].consumo_diario)

\* C7: every row of the per-key result has surplus = max(0, total_stock -
\* coverage_target) and shortage = max(0, coverage_target - total_stock),
\* never both positive and at least one of them exactly 0.
C7_ExcedentesYFaltantes ==
    \A i \in Filas(df_resultado) :
        LET r == df_resultado[i]
        IN  /\ r.excedentes
                   = Maximum(Sub(r.stock_libre_mas_calidad, r.stock_cobertura_ideal), Cero)
            /\ r.faltantes
                   = Maximum(Sub(r.stock_cobertura_ideal, r.stock_libre_mas_calidad), Cero)
            /\ ~(Positivo(r.excedentes) /\ Positivo(r.faltantes))
            /\ (r.excedentes = Cero \/ r.faltantes = Cero)

RealesEnCero(row) ==
    /\ row.cobertura_real_general = Cero
    /\ row.cobertura_real_hub = Cero
    /\ row.cobertura_real_transito = Cero
    /\ row.cobertura_real_produccion = Cero

\* C8: every row of the per-key result with nominal_ratio != 0 and
\* daily-rate = 0 has real coverage exactly 0 in every tier, whatever the
\* cumulative stock, cumulative stock 0 included.
C8_ConsumoCeroCoberturaCero ==
    \A i \in Filas(df_resultado) :
        (NotZero(df_resultado[i].ratio_nominal)
         /\ df_resultado[i].consumo_diario = Cero)
            => RealesEnCero(df_resultado[i])

TeoricaDe(row, tipo) == row["cobertura_teorica_con_stock_" \o tipo]

\* C9 as stated, the cumulative stock taken as calcular_cobertura accumulates
\* it: every row with nominal_ratio != 0 has theoretical_coverage(tier) =
\* (cumulative_stock(tier) x ideal_coverage_days) / max(coverage_target, 1).
C9_DenominadorMaximo ==
    \A i \in Filas(df_resultado) : \A t \in Tipos :
        NotZero(df_resultado[i].ratio_nominal) =>
            TeoricaDe(df_resultado[i], t)
                = Div(Mul(AcumuladoPorNombre(df_resultado[i], t),
                          df_resultado[i].cobertura_ideal),
                      Maximum(df_resultado[i].stock_cobertura_ideal, Uno))

TeoricaEsperada(row, tipo) ==
    Div(Mul(AcumuladoPorNombre(row, tipo), row.cobertura_ideal),
        IF row.stock_cobertura_ideal = Cero THEN Uno ELSE row.stock_cobertura_ideal)

\* C9 amended: every row with nominal_ratio != 0 has theoretical_coverage(tier)
\* = (cumulative stock x ideal_coverage_days) / d, the cumulative stock being
\* the one calcular_cobertura accumulates and d the coverage_target itself,
\* except d = 1 when the coverage_target is exactly 0; with the target exactly
\* 0 the result is cumulative stock x ideal_coverage_days.
C9_DenominadorReemplazaCero ==
    /\ \A i \in Filas(df_resultado) : \A t \in Tipos :
          NotZero(df_resultado[i].ratio_nominal) =>
              /\ TeoricaDe(df_resultado[i], t) = TeoricaEsperada(df_resultado[i], t)
              /\ df_resultado[i].stock_cobertura_ideal = Cero =>
                    TeoricaDe(df_resultado[i], t)
                        = Mul(AcumuladoPorNombre(df_resultado[i], t),
                              df_resultado[i].cobertura_ideal)
    /\ \A i \in Filas(df_resultado_por_insumo) : \A t \in Tipos :
          NotZero(df_resultado_por_insumo[i].ratio_nominal) =>
              TeoricaDe(df_resultado_por_insumo[i], t)
                  = TeoricaEsperada(df_resultado_por_insumo[i], t)

\* C9 witness: a per-key row with a ratio, a coverage_target between 0 and 1
\* and general stock, whose theoretical coverage exceeds stock x days
C9_ObjetivoFraccionario ==
    \E i \in Filas(df_resultado) :
        LET r == df_resultado[i]
        IN  /\ NotZero(r.ratio_nominal)
            /\ Positivo(r.stock_cobertura_ideal)
            /\ Lt(r.stock_cobertura_ideal, Uno)
            /\ Positivo(r.stock_libre_mas_calidad_general)
            /\ Lt(Mul(r.stock_libre_mas_calidad_general, r.cobertura_ideal),
                  r.cobertura_teorica_con_stock_general)

\* the distinct event dates the activity service reports for a location
DiasDe(loc) ==
    Cardinality({respuesta.str_des[e].FCSAZ :
                    e \in {x \in Filas(respuesta.str_des) :
                              respuesta.str_des[x].WERKS = loc}})

\* C10: every consumption row has daily-rate = total-consumed /
\* operational-days when the activity data has days for its location and
\* daily-rate = total-consumed when it has none, and the daily-rate is a finite
\* number, never null.
C10_ConsumoDiario ==
    \A i \in Filas(df_consumo_total) :
        LET c == df_consumo_total[i]
        IN  /\ DiasDe(c.id_localidad) > 0 =>
                  c.consumo_diario = Div(c.Cantidad, Num(DiasDe(c.id_localidad)))
            /\ DiasDe(c.id_localidad) = 0 => c.consumo_diario = c.Cantidad
            /\ IsFinite(c.consumo_diario)

\* C10 witness: a location without operational days and with consumption,
\* beside a location with two operational days
C10_SinDiasYConDias ==
    \E i, j \in Filas(df_consumo_total) :
        /\ DiasDe(df_consumo_total[i].id_localidad) = 0
        /\ Positivo(df_consumo_total[i].Cantidad)
        /\ df_consumo_total[i].consumo_diario = df_consumo_total[i].Cantidad
        /\ DiasDe(df_consumo_total[j].id_localidad) = 2
        /\ Positivo(df_consumo_total[j].consumo_diario)

\* a tier table of the split has no row for the CompositeKey k
SinFilaEnNivel(k, tipo) ==
    \A j \in Filas(separados[tipo]) : separados[tipo][j].id_localidad_insumo # k

\* C11: every row of the catalog base is in the per-key result, a result row
\* whose CompositeKey has no row in a tier table has exactly 0 in that tier's
\* quantity column, and a key without any stock has total_stock 0.
C11_BaseCompletaConCeros ==
    Procesado =>
        /\ \A i \in Filas(df_base) : \E j \in Filas(df_resultado) :
              /\ df_resultado[j].id_localidad_insumo = df_base[i].id_mix
              /\ df_resultado[j].id_localidad = df_base[i].id_localidad
              /\ df_resultado[j].id_insumo = df_base[i].id_insumo
        /\ \A j \in Filas(df_resultado) :
              LET k == df_resultado[j].id_localidad_insumo
              IN  /\ \A t \in Tipos :
                        SinFilaEnNivel(k, t) =>
                            df_resultado[j]["stock_libre_mas_calidad_" \o t] = Cero
                  /\ (\A t \in Tipos : SinFilaEnNivel(k, t)) =>
                        df_resultado[j].stock_libre_mas_calidad = Cero

\* C11 witness: a catalog key without any stock row, reported beside a key
\* that has stock
C11_ClaveSinExistencias ==
    /\ Procesado
    /\ \E i, j \in Filas(df_resultado) :
          /\ \A t \in Tipos : SinFilaEnNivel(df_resultado[i].id_localidad_insumo, t)
          /\ df_resultado[i].stock_libre_mas_calidad = Cero
          /\ Positivo(df_resultado[j].stock_libre_mas_calidad)

\* the catalog base row of a per-key result row
FilaBase(row) ==
    CHOOSE j \in Filas(df_base) : df_base[j].id_mix = row.id_localidad_insumo

\* C12: a catalog key without a nominal-ratio row or without an
\* installed-capacity row for its location is reported with coverage_target
\* exactly 0, surplus = total_stock and shortage = 0, and the run ends
\* without an exception.
C12_ReferenciaFaltanteObjetivoCero ==
    /\ Procesado =>
          \A i \in Filas(df_resultado) :
              (\/ IsNaN(df_base[FilaBase(df_resultado[i])].ratio_nominal)
               \/ IsNaN(df_base[FilaBase(df_resultado[i])].rendimiento))
              => /\ df_resultado[i].stock_cobertura_ideal = Cero
                 /\ df_resultado[i].excedentes = df_resultado[i].stock_libre_mas_calidad
                 /\ df_resultado[i].faltantes = Cero
    /\ (\E i \in Filas(df_base) :
           IsNaN(df_base[i].ratio_nominal) \/ IsNaN(df_base[i].rendimiento))
       => pc # "error"

\* a raw stock or ledger row whose material is not in the catalog, or whose
\* (location, material) pair is not a catalog key
Excluida(r) ==
    ~ \E c \in Filas(archivos.db_insumos) :
          /\ archivos.db_insumos[c].id_sap = r.Material
          /\ archivos.db_insumos[c].id_localidad
                 = generar_id_localidad(r.Centro, r.Almacen)
FilasExcluidas ==
    Cardinality({i \in Filas(archivos.mb51) : Excluida(archivos.mb51[i])})
    + Cardinality({i \in Filas(archivos.mb52) : Excluida(archivos.mb52[i])})

\* the two coverage tables the run computes from the workbooks arch
TablasDe(arch) ==
    LET mb51 == generar_ids_y_stock(mapear_insumo(arch.mb51, arch.db_insumos),
                                    "general")
        sep == generar_y_separar_mb52(mapear_insumo(arch.mb52, arch.db_insumos),
                                      "general")
        base == generar_base(arch.db_insumos, arch.db_ratios_planta_insumo,
                             arch.db_capacidad_instalada)
        consumo == generar_consumo(mb51,
                                   consultar_pesca(respuesta).df_dias_produccion)
    IN  procesar_datos(base, sep, consumo)

\* the workbooks without the rows that are excluded
SinExcluidas ==
    [archivos EXCEPT !.mb51 = SelectSeq(archivos.mb51, LAMBDA r : ~Excluida(r)),
                     !.mb52 = SelectSeq(archivos.mb52, LAMBDA r : ~Excluida(r))]

\* C13: no row of the written per-key report carries the key of an excluded
\* stock or ledger row, and the exclusion leaves a trace: a run that excluded
\* rows does not write the very workbook it writes when those rows are not in
\* its inputs (a workbook reporting the count of excluded rows would differ).
C13_ExcluidasYContadas ==
    pc = "guardado" =>
        /\ \A i \in Filas(archivos.mb51) \cup Filas(archivos.mb52) :
              \A t \in {archivos.mb51, archivos.mb52} :
                  (i \in Filas(t) /\ Excluida(t[i])) =>
                      \A j \in Filas(libro.seguimiento_insumos) :
                          ~(/\ libro.seguimiento_insumos[j].id_sap = t[i].Material
                            /\ libro.seguimiento_insumos[j].id_localidad
                                   = generar_id_localidad(t[i].Centro, t[i].Almacen))
        /\ FilasExcluidas > 0 =>
              ~(/\ libro.seguimiento_insumos = TablasDe(SinExcluidas).df_base
                /\ libro.seguimiento_por_insumo
                       = TablasDe(SinExcluidas).df_vista_por_insumo)

ColumnasDeCobertura ==
    {"cobertura_teorica_con_stock_" \o t : t \in Tipos}
    \cup {"cobertura_real_" \o t : t \in Tipos}

\* the per-material aggregation of procesar_datos applied to tabla
Agregada(tabla) == vista_por_insumo(tabla)

\* tabla has one row per material and its aggregation returns, for every
\* material, the additive columns and the coverage ratios of the input row
Idempotente(tabla) ==
    (\A i, j \in Filas(tabla) : tabla[i].id_insumo = tabla[j].id_insumo => i = j)
    => \A v \in Filas(Agregada(tabla)) : \A i \in Filas(tabla) :
          tabla[i].id_insumo = Agregada(tabla)[v].id_insumo =>
              \A c \in columnas_a_sumar \cup ColumnasDeCobertura :
                  Agregada(tabla)[v][c] = tabla[i][c]

\* C14: the per-material aggregation applied to a table with one row per
\* material, the per-key result of a catalog with one key per material or the
\* per-material view itself, returns the additive columns and the theoretical
\* and real coverages of the input rows.
C14_AgregacionIdempotente ==
    Procesado => Idempotente(df_resultado) /\ Idempotente(df_resultado_por_insumo)

\* the per-key rows of a material
FilasDelInsumo(ins) == SelectSeq(df_resultado, LAMBDA r : r.id_insumo = ins)

\* the sums and the averages of a material over its per-key rows
Sumada(ins, c) == SumSkipNa(Column(FilasDelInsumo(ins), c))
Promediada(ins, c) == MeanSkipNa(Column(FilasDelInsumo(ins), c))
ExistenciaSumada(ins, tipo) == Sumada(ins, "stock_libre_mas_calidad_" \o tipo)
AcumuladoSumado(ins, tipo) ==
    CASE tipo = "general" -> ExistenciaSumada(ins, "general")
      [] tipo = "hub" ->
             Add(ExistenciaSumada(ins, "general"), ExistenciaSumada(ins, "hub"))
      [] tipo = "produccion" ->
             Add(Add(ExistenciaSumada(ins, "general"), ExistenciaSumada(ins, "hub")),
                 ExistenciaSumada(ins, "produccion"))
      [] tipo = "transito" ->
             Add(Add(Add(ExistenciaSumada(ins, "general"),
                         ExistenciaSumada(ins, "hub")),
                     ExistenciaSumada(ins, "produccion")),
                 ExistenciaSumada(ins, "transito"))
ObjetivoRederivado(ins) ==
    Mul(Div(Mul(Promediada(ins, "ratio_nominal"), Promediada(ins, "maxima_descarga")),
            Promediada(ins, "rendimiento")),
        Promediada(ins, "cobertura_ideal"))
TeoricaRederivada(ins, tipo) ==
    IF Promediada(ins, "ratio_nominal") = Cero THEN Cero
    ELSE Div(Mul(AcumuladoSumado(ins, tipo), Promediada(ins, "cobertura_ideal")),
             IF ObjetivoRederivado(ins) = Cero THEN Uno ELSE ObjetivoRederivado(ins))
RealRederivada(ins, tipo) ==
    LET q == Div(AcumuladoSumado(ins, tipo), Sumada(ins, "consumo_diario"))
    IN  IF Promediada(ins, "ratio_nominal") = Cero THEN Cero
        ELSE IF IsInf(q) THEN Cero ELSE q

\* C15: every theoretical and real coverage of the per-material view is the
\* formula of calcular_cobertura applied to the material's summed tier stocks,
\* summed daily-rate and averaged reference fields, the cumulative stock being
\* the one calcular_cobertura accumulates; it is not taken from the per-key
\* coverages.
C15_VistaRederivada ==
    \A v \in Filas(df_resultado_por_insumo) : \A t \in Tipos :
        LET r == df_resultado_por_insumo[v]
        IN  /\ r["cobertura_teorica_con_stock_" \o t] = TeoricaRederivada(r.id_insumo, t)
            /\ r["cobertura_real_" \o t] = RealRederivada(r.id_insumo, t)

\* C15 witness: a material with several keys whose real coverage in the view
\* is positive and is neither the sum nor the average of its per-key real
\* coverages
C15_NiSumaNiPromedio ==
    \E v \in Filas(df_resultado_por_insumo) :
        LET r == df_resultado_por_insumo[v]
        IN  /\ Len(FilasDelInsumo(r.id_insumo)) > 1
            /\ Positivo(r.cobertura_real_general)
            /\ r.cobertura_real_general # Sumada(r.id_insumo, "cobertura_real_general")
            /\ r.cobertura_real_general
                   # Promediada(r.id_insumo, "cobertura_real_general")
            /\ \E i \in Filas(FilasDelInsumo(r.id_insumo)) :
                  Positivo(FilasDelInsumo(r.id_insumo)[i].cobertura_real_general)

\* the rows of the ledger and of the stock snapshot after preprocesar_datos
FilasConLocalidad ==
    {dfs.mb51[i] : i \in Filas(dfs.mb51)} \cup {dfs.mb52[i] : i \in Filas(dfs.mb52)}

\* C16: every preprocessed row has the identity 'TCNO-HUB' exactly when its
\* center is 'TCNO' and its sub-location is 'HUB' and its center code
\* otherwise, and rows with the same (center, sub-location) pair have the
\* same identity.
C16_IdentidadDeLocalidad ==
    Preprocesado =>
        /\ \A r \in FilasConLocalidad :
              /\ r.id_localidad = "TCNO-HUB" <=> (r.Centro = "TCNO" /\ r.Almacen = "HUB")
              /\ ~(r.Centro = "TCNO" /\ r.Almacen = "HUB") => r.id_localidad = r.Centro
        /\ \A r, q \in FilasConLocalidad :
              (r.Centro = q.Centro /\ r.Almacen = q.Almacen)
                  => r.id_localidad = q.id_localidad

\* C16 witness: a stock snapshot with the hub of TCNO and the HUB
\* sub-location of another center
C16_HubDeOtroCentro ==
    /\ pc = "preprocesado"
    /\ \E i, j \in Filas(dfs.mb52) :
        /\ dfs.mb52[i].Centro = "TCNO" /\ dfs.mb52[i].Almacen = "HUB"
        /\ dfs.mb52[i].id_localidad = "TCNO-HUB"
        /\ dfs.mb52[j].Centro = "A" /\ dfs.mb52[j].Almacen = "HUB"
        /\ dfs.mb52[j].id_localidad = "A"

\* nothing was loaded, computed or written
SinEfectos ==
    /\ \A k \in Requeridos : tareas[k] = "sin_enviar"
    /\ recogidas = 0
    /\ consultas = 0
    /\ dfs = SinCargar
    /\ separados = SinSeparar
    /\ df_base = SinTabla
    /\ df_consumo_total = SinTabla
    /\ df_resultado = SinTabla
    /\ df_resultado_por_insumo = SinTabla
    /\ ~libro.escrito

\* C17: in a run where one of the three required inputs is absent no loading
\* task is submitted, no table is loaded or computed and no workbook is
\* written; a workbook is written only in a run with the three inputs.
C17_SinArchivoSinResultado ==
    /\ subidos # Requeridos => SinEfectos /\ pc \in {"inicio", "advertencia"}
    /\ libro.escrito => subidos = Requeridos

\* C17 witness: the run ended by the warning with two of the three inputs
C17_AdvertenciaConDosArchivos ==
    /\ pc = "advertencia"
    /\ Cardinality(subidos) = 2
    /\ SinEfectos

\* C18: in every interleaving of the loading tasks, preprocessing and the
\* later steps run only when the three tasks have finished without failure
\* and their tables have all been taken; a run with a failed task computes
\* and writes nothing, goes on until the exception leaves
\* cargar_datos_en_paralelo, and then ends with that exception.
C18_CargaCompletaAntesDeCalcular ==
    /\ (pc = "cargado" \/ Preprocesado) =>
          /\ \A k \in Requeridos : tareas[k] = "lista"
          /\ recogidas = Len(OrdenDeRecogida)
    /\ pc = "cargado" => dfs = archivos
    /\ (\E k \in Requeridos : tareas[k] = "fallida") =>
          /\ pc \in {"cargando", "saliendo", "error"}
          /\ consultas = 0
          /\ separados = SinSeparar
          /\ df_base = SinTabla
          /\ df_consumo_total = SinTabla
          /\ df_resultado = SinTabla
          /\ df_resultado_por_insumo = SinTabla
          /\ ~libro.escrito
          /\ pc # "error" => ENABLED Next
    /\ (pc = "error" /\ consultas = 0) =>
          /\ error = "ValueError"
          /\ \E k \in Requeridos : tareas[k] = "fallida"
          /\ \A k \in Requeridos : tareas[k] # "pendiente"

\* C18 witness: the run ended by the exception of a failed task after the
\* tables of another task had been taken
C18_FallaConTablasParciales ==
    /\ pc = "error"
    /\ error = "ValueError"
    /\ recogidas > 0
    /\ dfs # SinCargar
    /\ \E k \in Requeridos : tareas[k] = "lista"
    /\ \E k \in Requeridos : tareas[k] = "fallida"

\* C19: the activity query is sent at most once in a run; when it fails the
\* run ends with RequestException for a transport failure, with TypeError for
\* a status other than 200 and with KeyError for an empty result, and no
\* consumption table, coverage table or workbook is produced.
C19_FallaDeConsultaDistinta ==
    /\ consultas <= 1
    /\ (/\ consultas = 1
        /\ \/ respuesta.clase = "excepcion"
           \/ respuesta.status_code # 200
           \/ respuesta.str_des = <<>>)
       => /\ pc = "error"
          /\ respuesta.clase = "excepcion" => error = "RequestException"
          /\ (respuesta.clase = "respuesta" /\ respuesta.status_code # 200)
                => error = "TypeError"
          /\ (respuesta.clase = "respuesta" /\ respuesta.status_code = 200)
                => error = "KeyError"
          /\ df_base = SinTabla
          /\ df_consumo_total = SinTabla
          /\ df_resultado = SinTabla
          /\ df_resultado_por_insumo = SinTabla
          /\ ~libro.escrito

\* C19 witness: a run ended by the status 500 of the activity service, after
\* its one query
C19_EstadoNoExitoso ==
    /\ pc = "error"
    /\ consultas = 1
    /\ respuesta.clase = "respuesta"
    /\ respuesta.status_code = 500
    /\ error = "TypeError"

\* C20: the per-key and per-material tables of a run, computed and written,
\* are the tables determined by the workbooks and the activity data alone,
\* whatever the tolerance, and the written workbook holds the tolerance in
\* its parameters sheet.
C20_ToleranciaSoloEnParametros ==
    /\ Procesado =>
          /\ df_resultado = TablasDe(archivos).df_base
          /\ df_resultado_por_insumo = TablasDe(archivos).df_vista_por_insumo
    /\ libro.escrito =>
          /\ libro.seguimiento_insumos = TablasDe(archivos).df_base
          /\ libro.seguimiento_por_insumo = TablasDe(archivos).df_vista_por_insumo
          /\ libro.parametros = <<[tolerancia |-> Div(Num(tolerancia), Num(100))]>>

\* C20 witness: a workbook written with a tolerance other than the default
C20_ToleranciaNoPorDefecto ==
    /\ pc = "guardado"
    /\ tolerancia # ToleranciaPorDefecto
    /\ libro.parametros[1].tolerancia = Cero
    /\ Len(libro.seguimiento_insumos) > 0
    /\ Len(libro.seguimiento_por_insumo) > 0

\* the (location identity, material code, CompositeKey) of the rows of the
\* catalog base, of the tier tables of the stock and of the consumption table
FilasConClave ==
    {<<df_base[i].id_localidad, df_base[i].id_insumo, df_base[i].id_mix>> :
        i \in Filas(df_base)}
    \cup {<<separados.intermedio[i].id_localidad, separados.intermedio[i].id_insumo,
            separados.intermedio[i].id_localidad_insumo>> :
             i \in Filas(separados.intermedio)}
    \cup {<<df_consumo_total[i].id_localidad, df_consumo_total[i].id_insumo,
            df_consumo_total[i].id_localidad_insumo>> :
             i \in Filas(df_consumo_total)}

\* C21: two rows with different (location identity, material code) pairs
\* never have the same CompositeKey, and the tier stock and the consumption
\* joined to a catalog row come from rows of the catalog row's own pair.
C21_ClaveInyectiva ==
    /\ \A a, b \in FilasConClave :
          a[3] = b[3] => (a[1] = b[1] /\ a[2] = b[2])
    /\ \A i \in Filas(df_resultado) :
          /\ \A t \in Tipos :
                Positivo(df_resultado[i]["stock_libre_mas_calidad_" \o t]) =>
                    \E j \in Filas(separados[t]) :
                        /\ separados[t][j].id_localidad = df_resultado[i].id_localidad
                        /\ separados[t][j].id_insumo = df_resultado[i].id_insumo
                        /\ separados[t][j]["stock_libre_mas_calidad_" \o t]
                               = df_resultado[i]["stock_libre_mas_calidad_" \o t]
          /\ Positivo(df_resultado[i].Cantidad) =>
                \E j \in Filas(df_consumo_total) :
                    /\ df_consumo_total[j].id_localidad = df_resultado[i].id_localidad
                    /\ df_consumo_total[j].id_insumo = df_resultado[i].id_insumo
                    /\ df_consumo_total[j].Cantidad = df_resultado[i].Cantidad

\* C22: every real coverage of every row of the per-key result is a finite
\* number, the rows of catalog keys with nominal_ratio != 0 and no row in the
\* consumption table included.
C22_CoberturaRealFinita ==
    \A i \in Filas(df_resultado) : \A t \in Tipos :
        IsFinite(df_resultado[i]["cobertura_real_" \o t])

=============================================================================
